---- MODULE Spec2Model ----
(***************************************************************************)
(* A model of src/app.py: the placeholder substitution that fills the quiz *)
(* template (markRight and the loops of generate_xmls) and the request     *)
(* handler POST /generate_xmls around it.                                  *)
(*                                                                         *)
(* A Python str is a sequence of one-character strings, so that            *)
(* str.replace, the f-strings that build the placeholder names, str() of   *)
(* an integer and str.strip() are computed character by character.         *)
(***************************************************************************)
EXTENDS Integers, Sequences, FiniteSets, TLC

(***************************************************************************)
(* Bounds of the model.                                                    *)
(***************************************************************************)
\* longest quiz list of an uploaded document (handler specification)
MaxQuizzes == 2
\* most questions of a quiz of the fill specification
MaxQuestions == 2
\* largest question number of the placeholder-name specification
MaxQNum == 12

(***************************************************************************)
(* Python built-ins.                                                       *)
(***************************************************************************)
\* the decimal digits, indexed by digit + 1
DigitChars == <<"0", "1", "2", "3", "4", "5", "6", "7", "8", "9">>

\* str(n), and the {n} of an f-string, for an integer n >= 0
RECURSIVE str(_)
str(n) ==
    IF n < 10 THEN <<DigitChars[n + 1]>>
    ELSE str(n \div 10) \o <<DigitChars[(n % 10) + 1]>>

\* chr read one code point too far
chrShifted(c) == <<"A", "B", "C", "D", "E", "F">>[c - 63]

\* chr(c) for the code points 65.. ("A"..), as far as the model uses them
chr(c) == <<"A", "B", "C", "D", "E", "F">>[c - 64]

\* s[i .. i + Len(old) - 1] = old
MatchAt(s, old, i) ==
    /\ i + Len(old) - 1 <= Len(s)
    /\ \A k \in 1..Len(old) : s[i + k - 1] = old[k]

\* the positions j >= i where old occurs in s
Occurrences(s, old, i) == {j \in i..Len(s) : s[j] = old[1] /\ MatchAt(s, old, j)}

\* s.find(old, i - 1) + 1: the first occurrence at or after i, 0 when there is none
Find(s, old, i) ==
    LET found == Occurrences(s, old, i) IN
    IF found = {} THEN 0
    ELSE CHOOSE j \in found : \A k \in found : j <= k

\* str.replace from position i on: the next occurrence is found, the text
\* before it is copied, new is appended and the scan resumes after the
\* occurrence, so that the inserted text is not scanned by the same call
RECURSIVE ReplaceFrom(_, _, _, _)
ReplaceFrom(s, old, new, i) ==
    LET j == Find(s, old, i) IN
    IF j = 0 THEN SubSeq(s, i, Len(s))
    ELSE SubSeq(s, i, j - 1) \o new \o ReplaceFrom(s, old, new, j + Len(old))

\* s.replace(old, new, 1): the first occurrence only
ReplaceFirst(s, old, new) ==
    LET j == Find(s, old, 1) IN
    IF j = 0 THEN s
    ELSE SubSeq(s, 1, j - 1) \o new \o SubSeq(s, j + Len(old), Len(s))

\* s.replace(old, new), old not empty
Replace(s, old, new) == ReplaceFrom(s, old, new, 1)

\* str.strip(): leading and trailing whitespace removed
RECURSIVE LStrip(_)
LStrip(s) == IF s # <<>> /\ Head(s) = " " THEN LStrip(Tail(s)) ELSE s
RECURSIVE RStrip(_)
RStrip(s) ==
    IF s # <<>> /\ s[Len(s)] = " " THEN RStrip(SubSeq(s, 1, Len(s) - 1)) ELSE s
Strip(s) == RStrip(LStrip(s))

(***************************************************************************)
(* The placeholder names, as the f-strings build them.                     *)
(***************************************************************************)
LB == <<"{", "{">>
RB == <<"}", "}">>
\* "{{TITLE}}"
TitlePlaceholder == LB \o <<"T", "I", "T", "L", "E">> \o RB
\* "{{ID}}"
IdPlaceholder == LB \o <<"I", "D">> \o RB
\* f"{{{{QUESTION_{qnum}}}}}"
QuestionPlaceholder(qnum) ==
    LB \o <<"Q", "U", "E", "S", "T", "I", "O", "N", "_">> \o str(qnum) \o RB
\* f"{{{{ANSWER_{qnum}{chr(64 + anum)}}}}}"
AnswerPlaceholder(qnum, anum) ==
    LB \o <<"A", "N", "S", "W", "E", "R", "_">> \o str(qnum) \o chr(64 + anum) \o RB
\* f"{{{{Option_{qnum}{i}}}}}"
OptionPlaceholder(qnum, i) ==
    LB \o <<"O", "p", "t", "i", "o", "n", "_">> \o str(qnum) \o str(i) \o RB

TrueStr == <<"t", "r", "u", "e">>
FalseStr == <<"f", "a", "l", "s", "e">>

\* range(1, 5): the option slots markRight fills
NumOptions == 4

\* the slot number compared with the zero-based index without the offset
CorrectValueOneBased(i, optionNo) == IF i = optionNo THEN TrueStr ELSE FalseStr

\* "true" if (i - 1) == optionNo else "false"
CorrectValue(i, optionNo) == IF (i - 1) = optionNo THEN TrueStr ELSE FalseStr

\* markRight, from slot i on
RECURSIVE markRightFrom(_, _, _, _)
markRightFrom(quiz_content, qnum, optionNo, i) ==
    IF i > NumOptions THEN quiz_content
    ELSE markRightFrom(
             Replace(quiz_content, OptionPlaceholder(qnum, i), CorrectValue(i, optionNo)),
             qnum, optionNo, i + 1)

markRight(quiz_content, qnum, optionNo) == markRightFrom(quiz_content, qnum, optionNo, 1)

(***************************************************************************)
(* Filling one quiz: lines 66-90 of generate_xmls.  A call returns a text  *)
(* or raises; an exception is a record, NoExc when nothing was raised, and *)
(* a call that raised leaves the working copy as far as it was filled.     *)
(***************************************************************************)
NoExc == [type |-> "", arg |-> ""]
KeyError(key) == [type |-> "KeyError", arg |-> key]
Returned(text) == [exc |-> NoExc, value |-> text]
Raised(e, text) == [exc |-> e, value |-> text]

\* for anum, answer_text in enumerate(q["ANSWERS"], start=1), from anum on
RECURSIVE FillAnswersFrom(_, _, _, _)
FillAnswersFrom(quiz_content, qnum, answers, anum) ==
    IF anum > Len(answers) THEN quiz_content
    ELSE FillAnswersFrom(
             Replace(quiz_content, AnswerPlaceholder(qnum, anum), answers[anum]),
             qnum, answers, anum + 1)

\* the body of the question loop for one question whose keys are present
FillQuestion(quiz_content, qnum, q) ==
    markRight(
        FillAnswersFrom(
            Replace(quiz_content, QuestionPlaceholder(qnum), q.QUESTION),
            qnum, q.ANSWERS, 1),
        qnum, q.CORRECT)

\* for qnum, q in enumerate(quiz["QUESTIONS"], start=1), from qnum on;
\* q["QUESTION"], q["ANSWERS"], q["CORRECT"] raise KeyError in that order
RECURSIVE FillQuestionsFrom(_, _, _)
FillQuestionsFrom(quiz_content, questions, qnum) ==
    IF qnum > Len(questions) THEN Returned(quiz_content)
    ELSE LET q == questions[qnum] IN
         IF "QUESTION" \notin DOMAIN q THEN Raised(KeyError("QUESTION"), quiz_content)
         ELSE IF "ANSWERS" \notin DOMAIN q THEN Raised(KeyError("ANSWERS"), quiz_content)
         ELSE IF "CORRECT" \notin DOMAIN q THEN Raised(KeyError("CORRECT"), quiz_content)
         ELSE FillQuestionsFrom(FillQuestion(quiz_content, qnum, q), questions, qnum + 1)

\* the working copy carried over from the previous iteration
StartContentKept(xml_template, previous_content) ==
    IF previous_content = <<>> THEN xml_template ELSE previous_content

\* quiz_content = xml_template: the text an iteration starts from
StartContent(xml_template, previous_content) == xml_template

\* lines 69-84: TITLE, then the questions
FillTemplate(quiz_content, quiz) ==
    IF "TITLE" \notin DOMAIN quiz THEN Raised(KeyError("TITLE"), quiz_content)
    ELSE IF "QUESTIONS" \notin DOMAIN quiz THEN Raised(KeyError("QUESTIONS"), quiz_content)
    ELSE FillQuestionsFrom(
             Replace(quiz_content, TitlePlaceholder, quiz.TITLE), quiz.QUESTIONS, 1)

\* mb_filled = meta_block_template.replace("{{ID}}", str(quiz["id"]))
MbFilled(meta_block_template, quiz) ==
    Replace(meta_block_template, IdPlaceholder, str(quiz.id))

\* quiz.get("id", "") in place of quiz["id"]
FullXmlDefaultId(quiz_content, meta_block_template, quiz) ==
    LET filled == FillTemplate(quiz_content, quiz) IN
    IF filled.exc # NoExc THEN filled
    ELSE Returned(filled.value
                  \o Replace(meta_block_template, IdPlaceholder,
                             IF "id" \in DOMAIN quiz THEN str(quiz.id) ELSE <<>>))

\* lines 66-90: full_xml of one quiz, or the exception raised on the way
FullXml(quiz_content, meta_block_template, quiz) ==
    LET filled == FillTemplate(quiz_content, quiz) IN
    IF filled.exc # NoExc THEN filled
    ELSE IF "id" \notin DOMAIN quiz THEN Raised(KeyError("id"), filled.value)
    ELSE Returned(filled.value \o MbFilled(meta_block_template, quiz))

\* enumerate without start=1
FileNameFromZero(base_name, idx) ==
    base_name \o <<"_">> \o str(idx - 1) \o <<".", "x", "m", "l">>

\* filename = f"{base_name}_{idx}.xml"
FileName(base_name, idx) == base_name \o <<"_">> \o str(idx) \o <<".", "x", "m", "l">>

(***************************************************************************)
(* The request handler.                                                    *)
(***************************************************************************)
VARIABLES
    request,              \* the multipart request: files, form, uploaded bytes as parsed by json.load
    disk,                 \* the two template files
    pc,                   \* position in generate_xmls
    base_name,            \* local base_name
    data,                 \* local data
    xml_template,         \* local xml_template
    meta_block_template,  \* local meta_block_template
    idx,                  \* loop counter of enumerate(..., start=1)
    quiz_content,         \* local quiz_content, as the last iteration left it
    zipf,                 \* entries written to the archive, in order
    response,             \* the HTTP response
    probe,                \* two placeholder descriptors (placeholder-name specification)
    names                 \* the two placeholder strings built for them

vars == <<request, disk, pc, base_name, data, xml_template, meta_block_template,
          idx, quiz_content, zipf, response, probe, names>>

NoData == [type |-> "none"]
NoResponse == [status |-> 0, description |-> <<>>, archive |-> <<>>]

\* abort(code, description)
Abort(code, description) ==
    [status |-> code, description |-> description, archive |-> <<>>]

\* an exception that leaves the view function: the framework answers 500
Uncaught(e) ==
    [status |-> 500, description |-> <<"Internal Server Error">>, archive |-> <<>>]

\* send_file(zip_buffer, ...)
SendFileResponse(entries) ==
    [status |-> 200, description |-> <<>>, archive |-> entries]

\* data.get("quizzes", []) of a dict
Quizzes(d) == IF "quizzes" \in DOMAIN d.items THEN d.items.quizzes ELSE <<>>

\* request.form.get("base_name", "") without strip()
FormBaseNameUnstripped(form) == IF form.has_base_name THEN form.base_name ELSE <<>>

\* request.form.get("base_name", "").strip()
FormBaseName(form) == Strip(IF form.has_base_name THEN form.base_name ELSE <<>>)

\* lines 38-39
CheckFile ==
    /\ pc = "check_file"
    /\ IF ~request.has_file
       THEN /\ response' = Abort(400, <<"No JSON file part">>)
            /\ pc' = "done"
       ELSE /\ pc' = "check_base_name"
            /\ UNCHANGED response
    /\ UNCHANGED <<request, disk, base_name, data, xml_template, meta_block_template,
                   idx, quiz_content, zipf, probe, names>>

\* lines 40-43
CheckBaseName ==
    /\ pc = "check_base_name"
    /\ base_name' = FormBaseName(request.form)
    /\ IF base_name' = <<>>
       THEN /\ response' = Abort(400, <<"Base filename is required">>)
            /\ pc' = "done"
       ELSE /\ pc' = "load_json"
            /\ UNCHANGED response
    /\ UNCHANGED <<request, disk, data, xml_template, meta_block_template,
                   idx, quiz_content, zipf, probe, names>>

\* lines 46-49
LoadJson ==
    /\ pc = "load_json"
    /\ IF request.upload.type = "malformed"
       THEN /\ response' = Abort(400, <<"Invalid JSON: ", request.upload.error>>)
            /\ pc' = "done"
            /\ UNCHANGED data
       ELSE /\ data' = request.upload
            /\ pc' = "load_templates"
            /\ UNCHANGED response
    /\ UNCHANGED <<request, disk, base_name, xml_template, meta_block_template,
                   idx, quiz_content, zipf, probe, names>>

\* lines 52-58
LoadTemplates ==
    /\ pc = "load_templates"
    /\ IF ~disk.xml.exists
       THEN /\ response' = Abort(500, <<"Template files not found: ", "xml_template.xml">>)
            /\ pc' = "done"
            /\ UNCHANGED <<xml_template, meta_block_template>>
       ELSE IF ~disk.meta.exists
       THEN /\ response' = Abort(500, <<"Template files not found: ", "meta_block.xml">>)
            /\ pc' = "done"
            /\ xml_template' = disk.xml.text
            /\ UNCHANGED meta_block_template
       ELSE /\ xml_template' = disk.xml.text
            /\ meta_block_template' = disk.meta.text
            /\ pc' = "open_zip"
            /\ UNCHANGED response
    /\ UNCHANGED <<request, disk, base_name, data, idx, quiz_content, zipf, probe, names>>

\* lines 61-64: the archive is opened and data.get("quizzes", []) evaluated;
\* a JSON document that is not an object has no get
OpenZip ==
    /\ pc = "open_zip"
    /\ IF data.type # "dict"
       THEN /\ response' = Uncaught([type |-> "AttributeError", arg |-> "get"])
            /\ pc' = "done"
       ELSE /\ pc' = "loop"
            /\ UNCHANGED response
    /\ idx' = 1
    /\ zipf' = <<>>
    /\ UNCHANGED <<request, disk, base_name, data, xml_template, meta_block_template,
                   quiz_content, probe, names>>

\* lines 64-94: one iteration of the quiz loop
WriteQuiz ==
    /\ pc = "loop"
    /\ idx <= Len(Quizzes(data))
    /\ LET quiz == Quizzes(data)[idx]
           start == StartContent(xml_template, quiz_content)
           full_xml == FullXml(start, meta_block_template, quiz)
       IN IF full_xml.exc # NoExc
          THEN /\ response' = Uncaught(full_xml.exc)
               /\ pc' = "done"
               /\ quiz_content' = FillTemplate(start, quiz).value
               /\ UNCHANGED <<idx, zipf>>
          ELSE /\ quiz_content' = FillTemplate(start, quiz).value
               /\ zipf' = Append(zipf, [filename |-> FileName(base_name, idx),
                                        content |-> full_xml.value])
               /\ idx' = idx + 1
               /\ UNCHANGED <<pc, response>>
    /\ UNCHANGED <<request, disk, base_name, data, xml_template, meta_block_template,
                   probe, names>>

\* lines 96-104
SendFile ==
    /\ pc = "loop"
    /\ idx > Len(Quizzes(data))
    /\ response' = SendFileResponse(zipf)
    /\ pc' = "done"
    /\ UNCHANGED <<request, disk, base_name, data, xml_template, meta_block_template,
                   idx, quiz_content, zipf, probe, names>>

(***************************************************************************)
(* The requests, uploads and template files the handler is run on.         *)
(***************************************************************************)
\* The placeholder tokens as a template file spells them (the grammar of the
\* template files): "{{" name "}}", the question number in decimal, then the
\* answer letter or the option digit.
Token(name) == <<"{", "{">> \o name \o <<"}", "}">>
Decimal(n) ==
    IF n < 10 THEN <<DigitChars[n + 1]>>
    ELSE <<DigitChars[(n \div 10) + 1], DigitChars[(n % 10) + 1]>>
TitleToken == Token(<<"T", "I", "T", "L", "E">>)
IdToken == Token(<<"I", "D">>)
QuestionToken(n) == Token(<<"Q", "U", "E", "S", "T", "I", "O", "N", "_">> \o Decimal(n))
AnswerLetters == <<"A", "B", "C", "D">>
AnswerToken(n, a) ==
    Token(<<"A", "N", "S", "W", "E", "R", "_">> \o Decimal(n) \o <<AnswerLetters[a]>>)
OptionToken(n, j) ==
    Token(<<"O", "p", "t", "i", "o", "n", "_">> \o Decimal(n) \o <<DigitChars[j + 1]>>)

\* every sequence over S of length at most n
BoundedSeq(S, n) == UNION {[1..k -> S] : k \in 0..n}

\* the dict r without key k
Without(r, k) == [x \in DOMAIN r \ {k} |-> r[x]]

PlainAnswers == << <<"c">>, <<"d">>, <<"e">>, <<"f">> >>

HandlerQuestion(k) == [QUESTION |-> <<"b">>, ANSWERS |-> PlainAnswers, CORRECT |-> k]

GoodQuizzes ==
    { [id |-> 7, TITLE |-> <<"L">>, QUESTIONS |-> <<HandlerQuestion(1)>>],
      [id |-> 12, TITLE |-> <<"M">>, QUESTIONS |-> <<HandlerQuestion(2)>>] }

\* quiz records that lack one of the keys the handler subscripts
BadQuizzes ==
    LET quiz == [id |-> 7, TITLE |-> <<"L">>, QUESTIONS |-> <<HandlerQuestion(1)>>] IN
    { Without(quiz, "TITLE"),
      Without(quiz, "id"),
      [quiz EXCEPT !.QUESTIONS = <<Without(HandlerQuestion(1), "QUESTION")>>],
      [quiz EXCEPT !.QUESTIONS = <<Without(HandlerQuestion(1), "CORRECT")>>] }

\* what json.load makes of the uploaded file
Uploads ==
    { [type |-> "malformed", error |-> "Expecting value: line 1 column 1 (char 0)"],
      [type |-> "list"],
      [type |-> "dict", items |-> [other |-> 0]] }
    \cup { [type |-> "dict", items |-> [quizzes |-> qs]] :
               qs \in BoundedSeq(GoodQuizzes \cup BadQuizzes, MaxQuizzes) }

Forms ==
    { [has_base_name |-> FALSE, base_name |-> <<>>] }
    \cup { [has_base_name |-> TRUE, base_name |-> b] :
               b \in { <<>>, <<" ">>, <<"q">>, <<" ", "q", " ">> } }

HandlerTemplates ==
    { <<"<">> \o TitleToken \o QuestionToken(1) \o AnswerToken(1, 1)
          \o OptionToken(1, 1) \o OptionToken(1, 2) \o <<">">>,
      TitleToken \o <<"x">> \o TitleToken }

HandlerMeta == <<"#">> \o IdToken

Disks ==
    { [xml |-> [exists |-> TRUE, text |-> t], meta |-> [exists |-> TRUE, text |-> HandlerMeta]] :
          t \in HandlerTemplates }
    \cup { [xml |-> [exists |-> FALSE, text |-> <<>>],
            meta |-> [exists |-> TRUE, text |-> HandlerMeta]],
           [xml |-> [exists |-> TRUE, text |-> TitleToken],
            meta |-> [exists |-> FALSE, text |-> <<>>]] }

Init ==
    /\ request \in [has_file : BOOLEAN, form : Forms, upload : Uploads]
    /\ disk \in Disks
    /\ pc = "check_file"
    /\ base_name = <<>>
    /\ data = NoData
    /\ xml_template = <<>>
    /\ meta_block_template = <<>>
    /\ idx = 0
    /\ quiz_content = <<>>
    /\ zipf = <<>>
    /\ response = NoResponse
    /\ probe = <<>>
    /\ names = <<>>

Next ==
    \/ CheckFile
    \/ CheckBaseName
    \/ LoadJson
    \/ LoadTemplates
    \/ OpenZip
    \/ WriteQuiz
    \/ SendFile

\* POST /generate_xmls, one request from its arrival to its response
Spec == Init /\ [][Next]_vars

(***************************************************************************)
(* Filling alone: the handler from the first iteration of its quiz loop    *)
(* on, for one quiz record, over templates made of two blocks and over     *)
(* values that are plain or hold placeholder tokens themselves.            *)
(***************************************************************************)
\* "{{Option_n1}}{{Option_n2}}{{Option_n3}}{{Option_n4}}"
OptionsBlock(n) ==
    OptionToken(n, 1) \o OptionToken(n, 2)
        \o OptionToken(n, 3) \o OptionToken(n, 4)

\* "{{QUESTION_n}}{{ANSWER_nA}}{{ANSWER_nB}}{{ANSWER_nC}}{{ANSWER_nD}}"
AnswersBlock(n) ==
    QuestionToken(n) \o AnswerToken(n, 1) \o AnswerToken(n, 2)
        \o AnswerToken(n, 3) \o AnswerToken(n, 4)

\* "{{TITLE}}x{{TITLE}}"
TitleBlock == TitleToken \o <<"x">> \o TitleToken

\* "{{TIT{{TITLE}}E}}": braces that do not delimit whole placeholders
NestedBlock == <<"{", "{", "T", "I", "T">> \o TitleToken \o <<"E", "}", "}">>

Blocks ==
    << <<>>, TitleBlock, NestedBlock >>
        \o [n \in 1..MaxQuestions |-> OptionsBlock(n)]
        \o [n \in 1..MaxQuestions |-> AnswersBlock(n)]

\* a block followed by itself or by a later block
FillTemplates ==
    UNION { { Blocks[i] \o Blocks[j] : j \in i..Len(Blocks) } : i \in 1..Len(Blocks) }

FillMetas == { <<"#">> \o IdToken, IdToken \o TitleToken }

FillerQuestion == [QUESTION |-> <<"b">>, ANSWERS |-> PlainAnswers, CORRECT |-> 0]

\* the questions tried at position n
ProbeQuestions(n) ==
    { [QUESTION |-> <<"b">>, ANSWERS |-> PlainAnswers, CORRECT |-> k] : k \in 0..3 }
    \cup { [QUESTION |-> <<"b">>, ANSWERS |-> SubSeq(PlainAnswers, 1, 3), CORRECT |-> 4],
           [QUESTION |-> TitleToken, ANSWERS |-> PlainAnswers, CORRECT |-> 2],
           [QUESTION |-> AnswerToken(n, 1),
            ANSWERS |-> <<OptionToken(n, 2), <<"d">>, QuestionToken(n + 1)>>,
            CORRECT |-> 1] }

\* question lists of filler questions with one tried question at any position
QuestionLists ==
    { <<>> }
    \cup UNION { UNION { { [i \in 1..len |-> IF i = pos THEN q ELSE FillerQuestion] :
                               q \in ProbeQuestions(pos) } :
                         pos \in 1..len } :
                 len \in 1..MaxQuestions }

FillTitles == { <<"L">>, QuestionToken(1) }

FillQuizzes ==
    { [id |-> 7, TITLE |-> t, QUESTIONS |-> qs] : t \in FillTitles, qs \in QuestionLists }

InitFill ==
    /\ request \in { [has_file |-> TRUE,
                      form |-> [has_base_name |-> TRUE, base_name |-> <<"q">>],
                      upload |-> [type |-> "dict", items |-> [quizzes |-> <<quiz>>]]] :
                         quiz \in FillQuizzes }
    /\ disk \in { [xml |-> [exists |-> TRUE, text |-> t],
                   meta |-> [exists |-> TRUE, text |-> m]] :
                      t \in FillTemplates, m \in FillMetas }
    /\ pc = "loop"
    /\ base_name = <<"q">>
    /\ data = request.upload
    /\ xml_template = disk.xml.text
    /\ meta_block_template = disk.meta.text
    /\ idx = 1
    /\ quiz_content = <<>>
    /\ zipf = <<>>
    /\ response = NoResponse
    /\ probe = <<>>
    /\ names = <<>>

NextFill ==
    \/ WriteQuiz
    \/ SendFile

\* the quiz loop of one request whose upload holds one quiz record
SpecFill == InitFill /\ [][NextFill]_vars

(***************************************************************************)
(* The placeholder names alone: two placeholders are described, and their  *)
(* names are built as lines 22, 69, 75 and 80 build them; the value given  *)
(* to the first is plain text or the token of the second.                  *)
(***************************************************************************)
Descriptors ==
    { [kind |-> "TITLE", qnum |-> 0, slot |-> 0] }
    \cup { [kind |-> "QUESTION", qnum |-> n, slot |-> 0] : n \in 1..MaxQNum }
    \cup { [kind |-> k, qnum |-> n, slot |-> sl] :
               k \in {"ANSWER", "Option"}, n \in 1..MaxQNum, sl \in 1..NumOptions }

\* the placeholder string the code builds for a descriptor
PlaceholderOf(d) ==
    CASE d.kind = "TITLE" -> TitlePlaceholder
      [] d.kind = "QUESTION" -> QuestionPlaceholder(d.qnum)
      [] d.kind = "ANSWER" -> AnswerPlaceholder(d.qnum, d.slot)
      [] d.kind = "Option" -> OptionPlaceholder(d.qnum, d.slot)

InitNames ==
    /\ probe \in [a : Descriptors, b : Descriptors, value : {"plain", "token"}]
    /\ names = <<>>
    /\ pc = "names"
    /\ request = [has_file |-> FALSE,
                  form |-> [has_base_name |-> FALSE, base_name |-> <<>>],
                  upload |-> [type |-> "list"]]
    /\ disk = [xml |-> [exists |-> FALSE, text |-> <<>>],
               meta |-> [exists |-> FALSE, text |-> <<>>]]
    /\ base_name = <<>>
    /\ data = NoData
    /\ xml_template = <<>>
    /\ meta_block_template = <<>>
    /\ idx = 0
    /\ quiz_content = <<>>
    /\ zipf = <<>>
    /\ response = NoResponse

BuildNames ==
    /\ pc = "names"
    /\ names' = <<PlaceholderOf(probe.a), PlaceholderOf(probe.b)>>
    /\ pc' = "built"
    /\ UNCHANGED <<request, disk, base_name, data, xml_template, meta_block_template,
                   idx, quiz_content, zipf, response, probe>>

NextNames == BuildNames

\* the names of two placeholders, built
SpecNames == InitNames /\ [][NextNames]_vars

(***************************************************************************)
(* Vocabulary of the properties.                                           *)
(***************************************************************************)
\* the text holds old somewhere
Contains(s, old) == Find(s, old, 1) # 0

\* no brace character in s
BraceFree(s) == \A i \in 1..Len(s) : s[i] \notin {"{", "}"}

\* the first brace of s at or after i, 0 when there is none
FirstBrace(s, i) ==
    LET braces == {j \in i..Len(s) : s[j] \in {"{", "}"}} IN
    IF braces = {} THEN 0 ELSE CHOOSE j \in braces : \A k \in braces : j <= k

\* from i on, braces occur in s only as the delimiters of whole tokens
RECURSIVE WellFormedFrom(_, _)
WellFormedFrom(s, i) ==
    LET a == FirstBrace(s, i) IN
    IF a = 0 THEN TRUE
    ELSE /\ a + 1 <= Len(s)
         /\ s[a] = "{"
         /\ s[a + 1] = "{"
         /\ LET e == FirstBrace(s, a + 2) IN
            /\ e # 0
            /\ e + 1 <= Len(s)
            /\ s[e] = "}"
            /\ s[e + 1] = "}"
            /\ WellFormedFrom(s, e + 2)

WellFormed(s) == WellFormedFrom(s, 1)

\* every text of the quiz record is free of braces
PlainQuiz(quiz) ==
    /\ BraceFree(quiz.TITLE)
    /\ \A n \in 1..Len(quiz.QUESTIONS) :
           /\ BraceFree(quiz.QUESTIONS[n].QUESTION)
           /\ \A a \in 1..Len(quiz.QUESTIONS[n].ANSWERS) :
                  BraceFree(quiz.QUESTIONS[n].ANSWERS[a])

\* the filled text of a piece of the template
Filled(text, quiz) == FillTemplate(text, quiz).value

\* the output document when the token at position p of the quiz template has
\* become mid and the text on either side of it has been filled on its own
Around(quiz, p, token, mid) ==
    Filled(SubSeq(xml_template, 1, p - 1), quiz)
        \o mid
        \o Filled(SubSeq(xml_template, p + Len(token), Len(xml_template)), quiz)
        \o MbFilled(meta_block_template, quiz)

\* the replacements that follow the one of answer a of question n, applied to text
AfterAnswer(text, quiz, n, a) ==
    LET q == quiz.QUESTIONS[n] IN
    FillQuestionsFrom(
        markRight(FillAnswersFrom(text, n, q.ANSWERS, a + 1), n, q.CORRECT),
        quiz.QUESTIONS, n + 1).value

\* base_name is missing, empty or made of whitespace only
Blank(form) ==
    \/ ~form.has_base_name
    \/ \A i \in 1..Len(form.base_name) : form.base_name[i] = " "

\* a quiz record that lacks a key the handler subscripts
BadShape(quiz) ==
    \/ ~({"TITLE", "QUESTIONS", "id"} \subseteq DOMAIN quiz)
    \/ \E n \in 1..Len(quiz.QUESTIONS) :
           ~({"QUESTION", "ANSWERS", "CORRECT"} \subseteq DOMAIN quiz.QUESTIONS[n])

\* the quiz records of the uploaded document
Uploaded ==
    IF request.upload.type = "dict" /\ "quizzes" \in DOMAIN request.upload.items
    THEN request.upload.items.quizzes
    ELSE <<>>

\* the request passes validation, parsing and template loading
ReachesLoop ==
    /\ request.has_file
    /\ ~Blank(request.form)
    /\ request.upload.type = "dict"
    /\ disk.xml.exists
    /\ disk.meta.exists

(***************************************************************************)
(* C1.  For a question at position n with CORRECT = k in 0..3 and four     *)
(* answers, each occurrence of {{Option_nj}} in the template has become    *)
(* "true" when j = k + 1 and "false" for the three other j.                *)
(***************************************************************************)
C1_OptionMarking ==
    \A e \in 1..Len(zipf) :
        LET quiz == Uploaded[e] IN
        \A n \in 1..Len(quiz.QUESTIONS) :
            LET q == quiz.QUESTIONS[n] IN
            (q.CORRECT \in 0..3 /\ Len(q.ANSWERS) = 4) =>
                \A j \in 1..4 :
                    \A p \in Occurrences(xml_template, OptionToken(n, j), 1) :
                        zipf[e].content =
                            Around(quiz, p, OptionToken(n, j),
                                   IF j = q.CORRECT + 1
                                   THEN <<"t", "r", "u", "e">>
                                   ELSE <<"f", "a", "l", "s", "e">>)

\* C1's case: the second question has CORRECT = 2 and four answers, the
\* template holds its third option token, and the document is written
C1_Witness ==
    /\ Len(zipf) = 1
    /\ Len(Uploaded[1].QUESTIONS) = 2
    /\ Uploaded[1].QUESTIONS[2].CORRECT = 2
    /\ Len(Uploaded[1].QUESTIONS[2].ANSWERS) = 4
    /\ Contains(xml_template, OptionToken(2, 3))
    /\ Contains(zipf[1].content, <<"f", "a", "l", "s", "e", "f", "a", "l", "s", "e", "t", "r", "u", "e", "f", "a", "l", "s", "e">>)

(***************************************************************************)
(* C2.  A request answered 200 for a quizzes list of length N has an       *)
(* archive of exactly N entries; the i-th is named <base_name>_<i>.xml     *)
(* and holds the filled document of the i-th quiz record.                  *)
(***************************************************************************)
C2_ArchiveEntries ==
    (pc = "done" /\ response.status = 200) =>
        /\ Len(response.archive) = Len(Uploaded)
        /\ \A i \in 1..Len(response.archive) :
               /\ response.archive[i].filename =
                      base_name \o <<"_", DigitChars[i + 1], ".", "x", "m", "l">>
               /\ response.archive[i].content =
                      FullXml(disk.xml.text, disk.meta.text, Uploaded[i]).value
        /\ \A i, j \in 1..Len(response.archive) :
               response.archive[i].filename = response.archive[j].filename => i = j

\* C2's case: a 200 response whose archive holds two entries, for a
\* base_name submitted with blanks around it
C2_Witness ==
    /\ pc = "done"
    /\ request.form.base_name = <<" ", "q", " ">>
    /\ response.status = 200
    /\ Len(response.archive) = 2
    /\ response.archive[2].filename = <<"q", "_", "2", ".", "x", "m", "l">>

(***************************************************************************)
(* C3.  A quiz record that lacks TITLE, id, QUESTION or CORRECT ends the   *)
(* request with a 400 response whose message carries the key.              *)
(***************************************************************************)
C3_MissingKeyIs400 ==
    (pc = "done" /\ ReachesLoop /\ \E i \in 1..Len(Uploaded) : BadShape(Uploaded[i])) =>
        /\ response.status = 400
        /\ \E i \in 1..Len(Uploaded) :
               \E k \in {"TITLE", "id", "QUESTION", "CORRECT"} :
                   \E d \in 1..Len(response.description) : response.description[d] = k

(***************************************************************************)
(* C4.  A failure at any stage ends the request with an error response,    *)
(* and a 200 response never carries fewer entries than quiz records.       *)
(***************************************************************************)
C4_NoPartialArchive ==
    /\ response.status = 200 =>
           /\ pc = "done"
           /\ ReachesLoop
           /\ Len(response.archive) = Len(Uploaded)
    /\ (pc = "done" /\ (\/ ~ReachesLoop
                        \/ \E i \in 1..Len(Uploaded) : BadShape(Uploaded[i]))) =>
           /\ response.status \in {400, 500}
           /\ response.archive = <<>>

\* C4's case: the second quiz record fails after the first was written
C4_Witness ==
    /\ pc = "done"
    /\ Len(zipf) = 1
    /\ Len(Uploaded) = 2
    /\ BadShape(Uploaded[2])
    /\ response.status = 500

(***************************************************************************)
(* C5.  Text inserted as the value of a placeholder (a TITLE, a question   *)
(* text, an answer) is not scanned by a later replacement: it stands       *)
(* unchanged in the output document where its placeholder was.             *)
(***************************************************************************)
C5_NonRecursive ==
    \A e \in 1..Len(zipf) :
        LET quiz == Uploaded[e] IN
        /\ \A p \in Occurrences(xml_template, TitleToken, 1) :
               zipf[e].content = Around(quiz, p, TitleToken, quiz.TITLE)
        /\ \A n \in 1..Len(quiz.QUESTIONS) :
               /\ \A p \in Occurrences(xml_template, QuestionToken(n), 1) :
                      zipf[e].content =
                          Around(quiz, p, QuestionToken(n), quiz.QUESTIONS[n].QUESTION)
               /\ \A a \in 1..Len(quiz.QUESTIONS[n].ANSWERS) :
                      \A p \in Occurrences(xml_template, AnswerToken(n, a), 1) :
                          zipf[e].content =
                              Around(quiz, p, AnswerToken(n, a), quiz.QUESTIONS[n].ANSWERS[a])

(***************************************************************************)
(* C6.  The request is answered 400 without an archive when the quiz_json  *)
(* part is missing, or base_name is missing, empty or whitespace, or the   *)
(* upload is not JSON; in the last case the message holds the parser's     *)
(* error text.                                                             *)
(***************************************************************************)
C6_BadRequest ==
    (pc = "done" /\ (\/ ~request.has_file
                     \/ Blank(request.form)
                     \/ request.upload.type = "malformed")) =>
        /\ response.status = 400
        /\ response.archive = <<>>
        /\ zipf = <<>>
        /\ (request.has_file /\ ~Blank(request.form)) =>
               \E d \in 1..Len(response.description) :
                   response.description[d] = request.upload.error

\* C6's case: the file part is there, base_name is one blank, and the
\* request has been answered
C6_Witness ==
    /\ pc = "done"
    /\ request.has_file
    /\ request.form.has_base_name
    /\ request.form.base_name = <<" ">>
    /\ request.upload.type = "dict"
    /\ response.status = 400

(***************************************************************************)
(* C7, as claimed.  When TITLE is plain, no {{TITLE}} remains anywhere in  *)
(* the output document.                                                    *)
(***************************************************************************)
C7_NoTitleLeft ==
    \A e \in 1..Len(zipf) :
        BraceFree(Uploaded[e].TITLE) => ~Contains(zipf[e].content, TitleToken)

(***************************************************************************)
(* C7, amended.  When braces occur in both templates only as delimiters of *)
(* whole placeholders, the metadata block template holds no {{TITLE}} and  *)
(* TITLE, the question texts, the answers and the id hold no brace, every  *)
(* occurrence of {{TITLE}} in the quiz template has become TITLE and no    *)
(* {{TITLE}} remains in the output document.                               *)
(***************************************************************************)
C7_TitleReplaced ==
    \A e \in 1..Len(zipf) :
        LET quiz == Uploaded[e] IN
        (/\ WellFormed(xml_template)
         /\ WellFormed(meta_block_template)
         /\ ~Contains(meta_block_template, TitleToken)
         /\ PlainQuiz(quiz)) =>
            /\ \A p \in Occurrences(xml_template, TitleToken, 1) :
                   zipf[e].content = Around(quiz, p, TitleToken, quiz.TITLE)
            /\ ~Contains(zipf[e].content, TitleToken)

\* C7's case: a template that holds {{TITLE}} twice, filled for a plain quiz
C7_Witness ==
    /\ Len(zipf) = 1
    /\ PlainQuiz(Uploaded[1])
    /\ WellFormed(xml_template)
    /\ Cardinality(Occurrences(xml_template, TitleToken, 1)) = 2
    /\ ~Contains(meta_block_template, TitleToken)
    /\ Contains(zipf[1].content, <<"L", "x", "L">>)

(***************************************************************************)
(* C8.  For a question at position n with m answers, each occurrence of    *)
(* {{ANSWER_n<letter>}} for the first m letters has been replaced by the   *)
(* answer of that position (which the later replacements then read like    *)
(* the rest of the text, and leave as it is when it holds no brace), and   *)
(* each occurrence for the remaining letters stands in the output          *)
(* document as it stood in the template.                                   *)
(***************************************************************************)
C8_AnswerLetters ==
    \A e \in 1..Len(zipf) :
        LET quiz == Uploaded[e] IN
        \A n \in 1..Len(quiz.QUESTIONS) :
            LET answers == quiz.QUESTIONS[n].ANSWERS IN
            \A a \in 1..4 :
                \A p \in Occurrences(xml_template, AnswerToken(n, a), 1) :
                    IF a <= Len(answers)
                    THEN /\ zipf[e].content =
                                Around(quiz, p, AnswerToken(n, a),
                                       AfterAnswer(answers[a], quiz, n, a))
                         /\ BraceFree(answers[a]) =>
                                AfterAnswer(answers[a], quiz, n, a) = answers[a]
                    ELSE zipf[e].content =
                             Around(quiz, p, AnswerToken(n, a), AnswerToken(n, a))

\* C8's case: the first question has three plain answers, the template holds
\* its four answer tokens, and the document shows c, d, e and {{ANSWER_1D}}
C8_Witness ==
    /\ Len(zipf) = 1
    /\ Len(Uploaded[1].QUESTIONS) >= 1
    /\ Uploaded[1].QUESTIONS[1].ANSWERS = << <<"c">>, <<"d">>, <<"e">> >>
    /\ Contains(xml_template, AnswerToken(1, 1) \o AnswerToken(1, 2)
                                  \o AnswerToken(1, 3) \o AnswerToken(1, 4))
    /\ Contains(zipf[1].content, <<"c", "d", "e">> \o AnswerToken(1, 4))

(***************************************************************************)
(* C9.  The names built for two different placeholders differ, neither     *)
(* is a substring of the other, replacing one leaves the other as it is,   *)
(* and the result of the two replacements is the same in either order.     *)
(***************************************************************************)
C9_NamesNeverCollide ==
    (pc = "built" /\ probe.a # probe.b) =>
        LET value == IF probe.value = "plain" THEN <<"u">> ELSE names[2]
            text == names[1] \o names[2]
        IN /\ names[1] # names[2]
           /\ ~Contains(names[1], names[2])
           /\ ~Contains(names[2], names[1])
           /\ Replace(names[2], names[1], value) = names[2]
           /\ Replace(Replace(text, names[1], value), names[2], <<"v">>)
                  = Replace(Replace(text, names[2], <<"v">>), names[1], value)

\* the part of C9 about the names alone, and the two orders for plain values
C9_NamesDistinct ==
    (pc = "built" /\ probe.a # probe.b) =>
        /\ names[1] # names[2]
        /\ ~Contains(names[1], names[2])
        /\ ~Contains(names[2], names[1])
        /\ Replace(names[2], names[1], <<"u">>) = names[2]
        /\ LET text == names[1] \o names[2] IN
           Replace(Replace(text, names[1], <<"u">>), names[2], <<"v">>)
               = Replace(Replace(text, names[2], <<"v">>), names[1], <<"u">>)

(***************************************************************************)
(* C10.  Filling a quiz changes neither loaded template: every iteration   *)
(* starts from the text read from disk, and the document written for the   *)
(* i-th quiz is the one that quiz record alone gives.                      *)
(***************************************************************************)
C10_TemplateUnchanged ==
    /\ pc \in {"open_zip", "loop"} =>
           /\ xml_template = disk.xml.text
           /\ meta_block_template = disk.meta.text
    /\ \A i \in 1..Len(zipf) :
           /\ xml_template = disk.xml.text
           /\ meta_block_template = disk.meta.text
           /\ zipf[i].content = FullXml(disk.xml.text, disk.meta.text, Uploaded[i]).value

\* C10's case: two different quiz records have been written
C10_Witness ==
    /\ Len(zipf) = 2
    /\ Uploaded[1] # Uploaded[2]
    /\ Contains(xml_template, QuestionToken(1))
    /\ zipf[1].content # zipf[2].content

====
